---------------------------- MODULE Spec2Model ----------------------------
(***************************************************************************)
(* A model of terraform-earth: the solar sampler with its point cache      *)
(* (layers/solar.py), the country resolver and the centroid store          *)
(* (layers/co2.py), the pipeline table (layers/pipelines.py) and the       *)
(* render pass with the land mask and the compositor (main.py).            *)
(*                                                                         *)
(* Conventions.                                                            *)
(*  - Angles are integers in tenths of a degree (-90 degrees is -900), so  *)
(*    the one-decimal centroids of pipelines.py and half-degree grid steps *)
(*    are exact.                                                           *)
(*  - A Python float that results from a division is the pair <<n, d>>     *)
(*    standing for n/d, d > 0; NaN is the string "NaN".                    *)
(*  - A Python str is a sequence of chunks: the chunk "'" is U+0027, the   *)
(*    chunk "U+2019" is the right single quotation mark, any other chunk   *)
(*    is text holding neither.  Accented letters are spelled in ASCII      *)
(*    with the accent in braces.                                           *)
(***************************************************************************)
EXTENDS Integers, Sequences, FiniteSets, TLC

VARIABLES
    \* ---- country resolver (co2.py, resolve_admin_name) ----
    name,          \* the raw country name handed to resolve_admin_name
    coords_dict,   \* the canonical-name -> centroid mapping handed to it
    resolved,      \* what the call returned (Pending before the call)
    \* ---- grid generator (solar.py, _generate_grid) ----
    lat_step,      \* the arguments of _generate_grid
    lon_step,
    grids,         \* the lists returned by the calls made so far
    \* ---- solar sampler and point cache (solar.py) ----
    solar_cache,   \* the file data/solar_cache.json
    nasa,          \* what NASA POWER answers now, per latitude band
    fetch_memo,    \* st.cache_data's memo of _fetch_point_data: (lat, lon) -> value
    solar_call,    \* the last call of get_global_solar_points: arguments, log, result
    cache_origin,  \* history: who wrote solar_cache last ("pass", "other")
    n_solar,       \* calls of get_global_solar_points made so far
    \* ---- centroid store (co2.py) ----
    coords_file,   \* the file layers/country_coords_ne.json
    ne_source,     \* what the request for NE_URL comes to now
    coords_call,   \* the last call of get_country_coords: result, fetch, exception
    coords_origin, \* history: who wrote coords_file last ("rebuild", "other")
    n_coords,      \* calls of get_country_coords made so far
    \* ---- render pass (main.py) ----
    pc,            \* where the script is: "start", "imported", "configured", "done"
    LAND,          \* the land polygons (none: the empty frame)
    layer_choices, \* the layers selected in the sidebar
    sliders,       \* the three sliders, in hundredths: <<solar, pipelines, co2>>
    co2_csv,       \* the file data/co2_2023.csv
    page,          \* what the pass did: layers, warnings, exception, locals
    n_env          \* changes of the environment made so far

resolveVars == <<name, coords_dict, resolved>>
gridVars    == <<lat_step, lon_step, grids>>
solarVars   == <<solar_cache, nasa, fetch_memo, solar_call, cache_origin, n_solar>>
coordsVars  == <<coords_file, ne_source, coords_call, coords_origin, n_coords>>
renderVars  == <<pc, LAND, layer_choices, sliders, co2_csv, page>>
vars        == <<resolveVars, gridVars, solarVars, coordsVars, renderVars, n_env>>

-----------------------------------------------------------------------------
(* Python values *)

APOS == "'"
RSQ  == "U+2019"

\* Python's None, as a value no str of the model equals.
None == <<"<None>">>

\* "The call has not returned yet", as a value no str of the model equals.
Pending == <<"<pending>">>

\* Truthiness of a str-or-None value: None and "" are falsy.
Truthy(v) == v # None /\ v # <<>>

(* Python floats.  A float is the pair <<n, d>>: the rational n/d in lowest
   terms when d > 0, NaN when <<0, 0>>, +inf when <<1, 0>>. *)
NaN    == <<0, 0>>
PosInf == <<1, 0>>

Abs(x) == IF x < 0 THEN -x ELSE x

RECURSIVE Gcd(_, _)
Gcd(a, b) == IF b = 0 THEN a ELSE Gcd(b, a % b)

\* n/d in lowest terms, d # 0.
Q(n, d) ==
    LET g == Gcd(Abs(n), Abs(d))
        sg == IF d < 0 THEN -1 ELSE 1
    IN  << sg * (n \div g), sg * (d \div g) >>

\* float(x) of an integer x.
Float(x) == <<x, 1>>

IsNan(x)    == x = NaN
IsFinite(x) == x[2] # 0

\* Arithmetic and order on finite floats.
QSub(a, b) == Q(a[1] * b[2] - b[1] * a[2], a[2] * b[2])
QMul(a, b) == Q(a[1] * b[1], a[2] * b[2])
QLe(a, b)  == a[1] * b[2] <= b[1] * a[2]
QLt(a, b)  == a[1] * b[2] < b[1] * a[2]
\* a / b for finite a and finite b # 0 (a zero divisor is the caller's case).
QDiv(a, b) == Q(a[1] * b[2], a[2] * b[1])
Zero == <<0, 1>>
One  == <<1, 1>>

Range(s) == { s[i] : i \in 1..Len(s) }

\* min(list) / max(list) over a non-empty sequence of finite floats.
QMin(s) == CHOOSE x \in Range(s) : \A y \in Range(s) : QLe(x, y)
QMax(s) == CHOOSE x \in Range(s) : \A y \in Range(s) : QLe(y, x)

RECURSIVE SumSeq(_)
\* sum(list) over a sequence of integers.
SumSeq(s) == IF s = <<>> THEN 0 ELSE s[1] + SumSeq(Tail(s))

\* max(list) over a non-empty sequence of integers.
SeqMax(s) == CHOOSE x \in Range(s) : \A y \in Range(s) : y <= x

-----------------------------------------------------------------------------
(* layers/co2.py: ALIASES and resolve_admin_name *)

\* The alias table, key -> target, as <<key, target>> pairs.
ALIASES ==
    { << <<"United States">>, <<"United States of America">> >>,
      << <<"Russia">>, <<"Russian Federation">> >>,
      << <<"Russian Federation">>, <<"Russian Federation">> >>,
      << <<"Viet Nam">>, <<"Vietnam">> >>,
      << <<"Korea, Rep.">>, <<"South Korea">> >>,
      << <<"Korea, Dem. People", APOS, "s Rep.">>, <<"North Korea">> >>,
      << <<"Congo, Dem. Rep.">>, <<"Democratic Republic of the Congo">> >>,
      << <<"Congo, Rep.">>, <<"Republic of the Congo">> >>,
      << <<"Gambia, The">>, <<"The Gambia">> >>,
      << <<"Bahamas, The">>, <<"The Bahamas">> >>,
      << <<"Egypt, Arab Rep.">>, <<"Egypt">> >>,
      << <<"Iran, Islamic Rep.">>, <<"Iran">> >>,
      << <<"Hong Kong SAR, China">>, <<"Hong Kong S.A.R. of China">> >>,
      << <<"Macao SAR, China">>, <<"Macao S.A.R, China">> >>,
      << <<"Cote d", APOS, "Ivoire">>, <<"C{o^}te d", RSQ, "Ivoire">> >>,
      << <<"Czechia">>, <<"Czech Republic">> >>,
      << <<"Turkiye">>, <<"Turkey">> >>,
      << <<"Syrian Arab Republic">>, <<"Syria">> >>,
      << <<"Lao PDR">>, <<"Laos">> >>,
      << <<"Kyrgyz Republic">>, <<"Kyrgyzstan">> >>,
      << <<"Micronesia, Fed. Sts.">>, <<"Federated States of Micronesia">> >>,
      << <<"Yemen, Rep.">>, <<"Yemen">> >>,
      << <<"Venezuela, RB">>, <<"Venezuela">> >>,
      << <<"Brunei Darussalam">>, <<"Brunei">> >>,
      << <<"Eswatini">>, <<"Swaziland">> >>,
      << <<"North Macedonia">>, <<"Macedonia">> >>,
      << <<"Myanmar">>, <<"Myanmar">> >>,
      << <<"Cabo Verde">>, <<"Cape Verde">> >>,
      << <<"Timor-Leste">>, <<"East Timor">> >>,
      << <<"S{a~}o Tom{e'} and Pr{i'}ncipe">>, <<"Sao Tome and Principe">> >>,
      << <<"Sao Tome and Principe">>, <<"Sao Tome and Principe">> >>,
      << <<"Palestine">>, <<"Palestine">> >>,
      << <<"West Bank and Gaza">>, <<"Palestine">> >>,
      << <<"Curacao">>, <<"Cura{c,}ao">> >>,
      << <<"Sint Maarten (Dutch part)">>, <<"Sint Maarten">> >>,
      << <<"Channel Islands">>, <<"Jersey">> >>,
      << <<"Virgin Islands (U.S.)">>, <<"United States Virgin Islands">> >>,
      << <<"Puerto Rico (US)">>, <<"Puerto Rico">> >>,
      << <<"French Polynesia">>, <<"French Polynesia">> >>,
      << <<"Greenland">>, <<"Greenland">> >> }

\* ALIASES.get(n): the target of key n, None without one.
AliasesGet(n) ==
    IF \E p \in ALIASES : p[1] = n
    THEN (CHOOSE p \in ALIASES : p[1] = n)[2]
    ELSE None

\* str.replace(RSQ, "'"): every right single quote becomes an apostrophe.
ReplaceRsq(s) == [i \in 1..Len(s) |-> IF s[i] = RSQ THEN APOS ELSE s[i]]

\* A plausible slip: the alias table is consulted before the exact match.
resolve_admin_name_alias_first(n, cd) ==
    LET alias == AliasesGet(n)
        cand  == ReplaceRsq(n)
    IN  IF Truthy(alias) /\ alias \in DOMAIN cd THEN alias
        ELSE IF n \in DOMAIN cd THEN n
        ELSE IF cand \in DOMAIN cd THEN cand
        ELSE None

resolve_admin_name(n, cd) ==
    LET alias == AliasesGet(n)
        cand  == ReplaceRsq(n)
    IN  IF n \in DOMAIN cd THEN n
        ELSE IF Truthy(alias) /\ alias \in DOMAIN cd THEN alias
        ELSE IF cand \in DOMAIN cd THEN cand
        ELSE None

-----------------------------------------------------------------------------
(* layers/solar.py: _generate_grid *)

LatStart == -900
LatStop  == 910
LonStart == -1800
LonStop  == 1810

\* np.arange(start, stop, step) for step > 0: start, start+step, ... < stop.
Arange(start, stop, step) ==
    LET n == IF stop > start THEN (stop - start + step - 1) \div step ELSE 0
    IN  [i \in 1..n |-> start + (i - 1) * step]

\* [(lat, lon) for lat in lats for lon in lons]
_generate_grid(lat_st, lon_st) ==
    LET lats == Arange(LatStart, LatStop, lat_st)
        lons == Arange(LonStart, LonStop, lon_st)
        nl   == Len(lons)
    IN  [k \in 1..(Len(lats) * nl) |->
            << lats[((k - 1) \div nl) + 1], lons[((k - 1) % nl) + 1] >>]

-----------------------------------------------------------------------------
(* layers/solar.py: _fetch_point_data, the point cache, get_global_solar_points *)

\* What the request of _fetch_point_data comes to: requests.get raises
\* ("timeout"), raise_for_status raises ("http_error"), the body is no JSON or
\* lacks properties.parameter.ALLSKY_SFC_SW_DWN ("malformed"), or the body
\* holds the series of periodic values ("ok").
Response(kind, series) == [kind |-> kind, series |-> series]

\* The body of _fetch_point_data, given the response: the mean of the series,
\* NaN on any exception (and np.mean of an empty series is NaN too).
MeanOrNan(resp) ==
    IF resp.kind # "ok" THEN NaN
    ELSE IF resp.series = <<>> THEN NaN
    ELSE Q(SumSeq(resp.series), Len(resp.series))

\* The remote service answers by latitude band.
Band(lat, lon) == IF lat >= 0 THEN "north" ELSE "south"
Bands == {"north", "south"}

\* _fetch_point_data under @st.cache_data: a memoized value is returned without
\* a request; otherwise the request is made and its outcome memoized.
\* Returns the value, the log entry and the memo afterwards.
_fetch_point_data(lat, lon, service, memo) ==
    IF <<lat, lon>> \in DOMAIN memo
    THEN [val  |-> memo[<<lat, lon>>],
          log  |-> [lat |-> lat, lon |-> lon, resp |-> Response("memo", <<>>),
                    val |-> memo[<<lat, lon>>]],
          memo |-> memo]
    ELSE LET resp == service[Band(lat, lon)]
             v    == MeanOrNan(resp)
         IN  [val  |-> v,
              log  |-> [lat |-> lat, lon |-> lon, resp |-> resp, val |-> v],
              memo |-> (<<lat, lon>> :> v) @@ memo]

\* A JSON array: what json.dump makes of a list or a tuple, and json.load
\* turns into a list.
JArr(items) == [t |-> "array", v |-> items]

\* A file: absent, bytes that are no JSON ("garbage"), or a JSON document.
Absent     == [kind |-> "absent", doc |-> JArr(<<>>)]
Garbage    == [kind |-> "garbage", doc |-> JArr(<<>>)]
JsonFile(d) == [kind |-> "json", doc |-> d]

\* json.dump(points, f): the list of tuples becomes an array of arrays.
DumpPoints(points) == JArr([i \in 1..Len(points) |-> JArr(points[i])])

\* Truthiness of what json.load returned: a non-empty list.
JTruthy(d) == d.v # <<>>

\* "for lat, lon, val in data" with the three float() calls succeeds: data is
\* an array whose elements are arrays of three numbers.
IsTripleArray(d) ==
    /\ d.t = "array"
    /\ \A i \in 1..Len(d.v) : d.v[i].t = "array" /\ Len(d.v[i].v) = 3

\* A plausible slip: the "if data:" test is left out, so an empty array is a hit.
CacheRead_no_empty_test(file) ==
    IF file.kind # "json" THEN [hit |-> FALSE, points |-> <<>>]
    ELSE IF ~IsTripleArray(file.doc) THEN [hit |-> FALSE, points |-> <<>>]
    ELSE [hit |-> TRUE,
          points |-> [i \in 1..Len(file.doc.v) |-> file.doc.v[i].v]]

\* Lines 43-50: the cache is used when the file exists, parses, is truthy and
\* converts; any exception of json.load or of the conversion falls through.
CacheRead(file) ==
    IF file.kind = "absent" THEN [hit |-> FALSE, points |-> <<>>]
    ELSE IF file.kind = "garbage" THEN [hit |-> FALSE, points |-> <<>>]
    ELSE IF ~JTruthy(file.doc) THEN [hit |-> FALSE, points |-> <<>>]
    ELSE IF ~IsTripleArray(file.doc) THEN [hit |-> FALSE, points |-> <<>>]
    ELSE [hit |-> TRUE,
          points |-> [i \in 1..Len(file.doc.v) |->
                         << file.doc.v[i].v[1], file.doc.v[i].v[2],
                            file.doc.v[i].v[3] >>]]

\* A plausible slip: enumerate(grid) without start=1, so the indices run from 0.
Sampled_from_zero(i, skip_factor) == (i - 1) % skip_factor = 0

\* Line 57: the grid point of index i (from 1) is sampled.
Sampled(i, skip_factor) == i % skip_factor = 0

\* Lines 57-62: one turn of the loop, on the grid point of index i (from 1).
\* st holds the points collected, the memo and the fetch log so far.
SampleStep(grid, i, skip_factor, service, st) ==
    IF ~Sampled(i, skip_factor) THEN st
    ELSE LET r == _fetch_point_data(grid[i][1], grid[i][2], service, st.memo)
         IN  [points |-> IF ~IsNan(r.val)
                         THEN Append(st.points, <<Float(grid[i][1]),
                                                  Float(grid[i][2]), r.val>>)
                         ELSE st.points,
              memo   |-> r.memo,
              log    |-> Append(st.log, r.log)]

RECURSIVE SampleLoop(_, _, _, _, _, _)
\* Lines 56-62: the loop over enumerate(grid, start=1), indices lo..hi in
\* order; the turns of lo..mid are over, left being their outcome, before
\* those of mid+1..hi begin.
SampleLoop(grid, lo, hi, skip_factor, service, st) ==
    IF lo > hi THEN st
    ELSE IF lo = hi THEN SampleStep(grid, lo, skip_factor, service, st)
    ELSE LET mid  == (lo + hi) \div 2
             left == SampleLoop(grid, lo, mid, skip_factor, service, st)
         IN  IF left = left
             THEN SampleLoop(grid, mid + 1, hi, skip_factor, service, left)
             ELSE left

\* A plausible slip: the cache is keyed by the parameters, a cached list being
\* used only when every point of it is a sampled point of the grid asked for.
get_global_solar_points_keyed(lat_st, lon_st, skip_factor, file, service, memo) ==
    LET c    == CacheRead(file)
        grid == _generate_grid(lat_st, lon_st)
        r    == SampleLoop(grid, 1, Len(grid), skip_factor, service,
                           [points |-> <<>>, memo |-> memo, log |-> <<>>])
    IN  IF c.hit /\ \A i \in 1..Len(c.points) :
                      \E k \in 1..Len(grid) :
                          /\ Sampled(k, skip_factor)
                          /\ c.points[i][1] = Float(grid[k][1])
                          /\ c.points[i][2] = Float(grid[k][2])
        THEN [ret |-> c.points, log |-> <<>>, cache |-> file, memo |-> memo,
              hit |-> TRUE]
        ELSE [ret |-> r.points, log |-> r.log,
              cache |-> JsonFile(DumpPoints(r.points)), memo |-> r.memo,
              hit |-> FALSE]

\* get_global_solar_points: the value returned, the fetch log, and the cache
\* file and the memo afterwards.
get_global_solar_points(lat_st, lon_st, skip_factor, file, service, memo) ==
    LET c == CacheRead(file)
    IN  IF c.hit
        THEN [ret |-> c.points, log |-> <<>>, cache |-> file, memo |-> memo,
              hit |-> TRUE]
        ELSE LET grid == _generate_grid(lat_st, lon_st)
                 r    == SampleLoop(grid, 1, Len(grid), skip_factor, service,
                                    [points |-> <<>>, memo |-> memo,
                                     log |-> <<>>])
             IN  [ret |-> r.points, log |-> r.log,
                  cache |-> JsonFile(DumpPoints(r.points)), memo |-> r.memo,
                  hit |-> FALSE]

\* The record of a call of get_global_solar_points, before any call.
NoCall ==
    [args |-> <<0, 0, 0>>, before |-> Absent, hit |-> FALSE, log |-> <<>>,
     ret |-> <<>>]

-----------------------------------------------------------------------------
(* layers/co2.py: the centroid store *)

\* A Python tuple where it must be told from the list json.load returns.
Tup(items) == [t |-> "tuple", v |-> items]

\* The str values of the model, against None.
IsStr(v) == v # None

\* x or y, on str-or-None values.
Or(x, y) == IF Truthy(x) THEN x ELSE y

\* A GeoJSON feature.  props holds the values of "ADMIN", "name" and "admin"
\* (None when the key is missing); gtype is geometry.type (None when missing);
\* coords is geometry.coordinates, vertices being <<lon, lat>> pairs; nocoords
\* says that "coordinates" is missing, nogeom that "geometry" is null.
Feature(ADMIN, nm, adm, gtype, coords) ==
    [ADMIN |-> ADMIN, name |-> nm, admin |-> adm, gtype |-> gtype,
     coords |-> coords, nocoords |-> FALSE, nogeom |-> FALSE]

\* _poly_mean: the mean of the vertices' columns, returned as (lat, lon).
_poly_mean(ring) ==
    LET n == Len(ring)
    IN  Tup(<< Q(SumSeq([i \in 1..n |-> ring[i][2]]), n),
               Q(SumSeq([i \in 1..n |-> ring[i][1]]), n) >>)

RECURSIVE LargestFrom(_, _, _, _)
\* The loop of _largest_outer_ring from polygon i on: the first outer ring of
\* the greatest length seen.
LargestFrom(multipoly, i, best, best_len) ==
    IF i > Len(multipoly) THEN best
    ELSE LET poly  == multipoly[i]
             outer == IF poly # <<>> THEN poly[1] ELSE <<>>
         IN  IF Len(outer) > best_len
             THEN LargestFrom(multipoly, i + 1, outer, Len(outer))
             ELSE LargestFrom(multipoly, i + 1, best, best_len)

_largest_outer_ring(multipoly) == LargestFrom(multipoly, 1, <<>>, -1)

\* Lines 50-69 for one feature: the (admin, centroid) entry it adds, or no
\* entry ("skip"): a missing name, type or coordinates, another geometry type,
\* a MultiPolygon without outer ring, or an exception of the computation
\* (no ring to index, an empty ring whose mean does not unpack).
FeatureEntry(f) ==
    LET adm == Or(Or(f.ADMIN, f.name), f.admin)
        skip == [skip |-> TRUE, admin |-> <<>>, at |-> Tup(<<Zero, Zero>>)]
    IN  IF ~Truthy(adm) \/ ~Truthy(f.gtype) \/ f.nocoords THEN skip
        ELSE IF f.gtype = <<"Polygon">>
        THEN IF f.coords = <<>> THEN skip
             ELSE IF f.coords[1] = <<>> THEN skip
             ELSE [skip |-> FALSE, admin |-> adm, at |-> _poly_mean(f.coords[1])]
        ELSE IF f.gtype = <<"MultiPolygon">>
        THEN LET outer == _largest_outer_ring(f.coords)
             IN  IF outer = <<>> THEN skip
                 ELSE [skip |-> FALSE, admin |-> adm, at |-> _poly_mean(outer)]
        ELSE skip

RECURSIVE BuildCoords(_, _, _)
\* Lines 48-69: the dict built from the features, from feature i on; a later
\* feature of the same name overwrites an earlier one.
BuildCoords(features, i, coords) ==
    IF i > Len(features) THEN coords
    ELSE LET e == FeatureEntry(features[i])
         IN  IF e.skip THEN BuildCoords(features, i + 1, coords)
             ELSE BuildCoords(features, i + 1,
                     [k \in DOMAIN coords \cup {e.admin} |->
                         IF k = e.admin THEN e.at ELSE coords[k]])

\* The centroid cache file: absent, no JSON, or a JSON object name -> [lat, lon].
NoCoordsFile      == [kind |-> "absent", doc |-> <<>>]
GarbageCoordsFile == [kind |-> "garbage", doc |-> <<>>]
CoordsJson(doc)   == [kind |-> "json", doc |-> doc]

\* json.dump(coords, f): every tuple value becomes an array.
DumpCoords(coords) == [k \in DOMAIN coords |-> JArr(coords[k].v)]

\* The outcome of a call: the value returned (the empty dict when it raised),
\* the exception that left it ("" for none), whether NE_URL was requested,
\* and the file afterwards.
CoordsOutcome(ret, raised, fetched, file) ==
    [ret |-> ret, raised |-> raised, fetched |-> fetched, file |-> file]

\* A plausible slip: the mapping built is returned without being written.
generate_country_coords_no_write(src, file) ==
    IF src.kind = "error" THEN CoordsOutcome(<<>>, "URLError", TRUE, file)
    ELSE IF \E i \in 1..Len(src.features) : src.features[i].nogeom
    THEN CoordsOutcome(<<>>, "AttributeError", TRUE, file)
    ELSE CoordsOutcome(BuildCoords(src.features, 1, <<>>), "", TRUE, file)

\* generate_country_coords: urlopen or json.load raising leaves before anything
\* is written, and so does geom.get on a null geometry; otherwise the dict is
\* built, written to COORDS_FILE and returned.
generate_country_coords(src, file) ==
    IF src.kind = "error" THEN CoordsOutcome(<<>>, "URLError", TRUE, file)
    ELSE IF \E i \in 1..Len(src.features) : src.features[i].nogeom
    THEN CoordsOutcome(<<>>, "AttributeError", TRUE, file)
    ELSE LET coords == BuildCoords(src.features, 1, <<>>)
         IN  CoordsOutcome(coords, "", TRUE, CoordsJson(DumpCoords(coords)))

\* get_country_coords: an existing file is loaded (json.load raising is not
\* caught), an absent one rebuilt.
get_country_coords(file, src) ==
    IF file.kind = "json" THEN CoordsOutcome(file.doc, "", FALSE, file)
    ELSE IF file.kind = "garbage"
    THEN CoordsOutcome(<<>>, "JSONDecodeError", FALSE, file)
    ELSE generate_country_coords(src, file)

\* The steps _generate_grid is called with here (tenths of a degree): main.py's
\* 20, the default 50, the end-to-end scenario's 90/180, and half-degree and
\* 1.5-degree latitude steps.
LatSteps == {5, 15, 200, 300, 450, 500, 600, 900, 1800, 2000}
LonSteps == {200, 500, 900, 1200, 1800, 3600, 4000}
MaxGridCalls == 2

-----------------------------------------------------------------------------
(* layers/pipelines.py *)

\* PIPELINE_COUNTS, in the order of the dict.
PIPELINE_COUNTS ==
    << <<"Argentina", 1709>>,
       <<"Australia", 1453>>,
       <<"Azerbaijan", 525>>,
       <<"Brazil", 1371>>,
       <<"Canada", 5343>>,
       <<"Chile", 156>>,
       <<"China", 3302>>,
       <<"Colombia", 1474>>,
       <<"Ecuador", 642>>,
       <<"France", 260>>,
       <<"Georgia", 248>>,
       <<"Germany", 43>>,
       <<"India", 4466>>,
       <<"Iran", 248>>,
       <<"Kazakhstan", 2468>>,
       <<"Libya", 595>>,
       <<"Mexico", 21>>,
       <<"Netherlands", 432>>,
       <<"New Zealand", 10>>,
       <<"Oman", 300>>,
       <<"Panama", 0>>,
       <<"Peru", 560>>,
       <<"Qatar", 437>>,
       <<"Russia", 12187>>,
       <<"Saudi Arabia", 1580>>,
       <<"Spain", 350>>,
       <<"Switzerland", 118>>,
       <<"T{u:}rkiye", 1075>>,
       <<"United Arab Emirates", 306>>,
       <<"United Kingdom", 37>>,
       <<"United States", 51123>> >>

\* COUNTRY_COORDS, (lat, lon) in tenths of a degree.
COUNTRY_COORDS ==
    << <<"Argentina", -384, -636>>,
       <<"Australia", -253, 1338>>,
       <<"Azerbaijan", 401, 476>>,
       <<"Brazil", -108, -529>>,
       <<"Canada", 561, -1063>>,
       <<"Chile", -357, -715>>,
       <<"China", 359, 1042>>,
       <<"Colombia", 46, -741>>,
       <<"Ecuador", -18, -782>>,
       <<"France", 462, 22>>,
       <<"Georgia", 423, 434>>,
       <<"Germany", 512, 105>>,
       <<"India", 206, 789>>,
       <<"Iran", 324, 537>>,
       <<"Kazakhstan", 480, 670>>,
       <<"Libya", 263, 172>>,
       <<"Mexico", 236, -1026>>,
       <<"Netherlands", 521, 53>>,
       <<"New Zealand", -409, 1749>>,
       <<"Oman", 215, 559>>,
       <<"Panama", 85, -808>>,
       <<"Peru", -92, -750>>,
       <<"Qatar", 253, 512>>,
       <<"Russia", 615, 1053>>,
       <<"Saudi Arabia", 239, 451>>,
       <<"Spain", 405, -37>>,
       <<"Switzerland", 468, 82>>,
       <<"T{u:}rkiye", 390, 352>>,
       <<"United Arab Emirates", 234, 538>>,
       <<"United Kingdom", 554, -34>>,
       <<"United States", 371, -957>> >>

\* "country in COUNTRY_COORDS" and COUNTRY_COORDS[country].
InCountryCoords(c) == \E i \in 1..Len(COUNTRY_COORDS) : COUNTRY_COORDS[i][1] = c
CountryCoord(c) ==
    LET e == COUNTRY_COORDS[CHOOSE i \in 1..Len(COUNTRY_COORDS) :
                               COUNTRY_COORDS[i][1] = c]
    IN  <<Float(e[2]), Float(e[3])>>

\* np.log1p(count) / np.log1p(vmax), kept as the expression it is.
Log1pRatio(count, vmax) == [log1p_of |-> count, over_log1p_of |-> vmax]

\* A HeatMap(...).add_to(map): the layer it belongs to and its triples.
HeatMap(layer, data) == [layer |-> layer, data |-> data]

\* add_pipeline_layer: no layer without a positive count, else one triple per
\* country of non-zero count that has coordinates.
add_pipeline_layer ==
    LET vals == SelectSeq(PIPELINE_COUNTS, LAMBDA e : e[2] > 0)
        vmax == SeqMax([i \in 1..Len(vals) |-> vals[i][2]])
        kept == SelectSeq(PIPELINE_COUNTS,
                          LAMBDA e : e[2] # 0 /\ InCountryCoords(e[1]))
    IN  IF vals = <<>> THEN <<>>
        ELSE << HeatMap("Pipeline Network",
                    [i \in 1..Len(kept) |->
                        << CountryCoord(kept[i][1])[1], CountryCoord(kept[i][1])[2],
                           Log1pRatio(kept[i][2], vmax) >>]) >>

-----------------------------------------------------------------------------
(* layers/solar.py: add_solar_points_layer *)

\* A plausible slip: the value is divided by the maximum only.
MinMax_by_max(v, lo, hi) == QDiv(v, hi)

\* (v - lo) / (hi - lo), for hi # lo.
MinMax(v, lo, hi) == QDiv(QSub(v, lo), QSub(hi, lo))

\* A value of the normalisation log: the layer, the raw value and what it
\* was mapped to (the local weight, sval, pval or norm_val).
Norm(layer, raw, n) == [layer |-> layer, raw |-> raw, norm |-> n]

\* add_solar_points_layer: nothing without a value that is not NaN; the
\* division raises ZeroDivisionError at the first point when vmax = vmin.
add_solar_points_layer(points) ==
    LET good == SelectSeq(points, LAMBDA q : ~IsNan(q[3]))
        vals == [i \in 1..Len(good) |-> good[i][3]]
        vmin == QMin(vals)
        vmax == QMax(vals)
    IN  IF vals = <<>> THEN [exc |-> "", maps |-> <<>>, norms |-> <<>>]
        ELSE IF vmax = vmin
        THEN [exc |-> "ZeroDivisionError", maps |-> <<>>, norms |-> <<>>]
        ELSE [exc |-> "",
              maps |-> << HeatMap("Solar Irradiance",
                            [i \in 1..Len(good) |->
                               << good[i][1], good[i][2],
                                  MinMax(good[i][3], vmin, vmax) >>]) >>,
              norms |-> [i \in 1..Len(good) |->
                           Norm("Solar Irradiance", good[i][3],
                                MinMax(good[i][3], vmin, vmax))]]

-----------------------------------------------------------------------------
(* layers/co2.py: get_country_co2_data and add_co2_layer *)

RECURSIVE LStrip(_)
\* str.strip(): chunks of white space are " ".
LStrip(str) == IF str # <<>> /\ str[1] = " " THEN LStrip(Tail(str)) ELSE str
RStrip(str) ==
    LET Rev(q) == [i \in 1..Len(q) |-> q[Len(q) + 1 - i]]
    IN  Rev(LStrip(Rev(str)))
Strip(str) == RStrip(LStrip(str))

\* The file data/co2_2023.csv: missing, or its rows (country, co2_total_mt),
\* an empty cell being NaN.
NoCsv     == [kind |-> "missing", rows |-> <<>>]
Csv(rows) == [kind |-> "csv", rows |-> rows]
Row(country, mt) == [country |-> country, co2_total_mt |-> mt]

\* get_country_co2_data past the existence test: the rows with a value, each
\* with its stripped country_key.
get_country_co2_data(csv) ==
    LET kept == SelectSeq(csv.rows, LAMBDA r : ~IsNan(r.co2_total_mt))
    IN  [i \in 1..Len(kept) |->
            [country |-> kept[i].country, co2_total_mt |-> kept[i].co2_total_mt,
             country_key |-> Strip(kept[i].country)]]

\* "not np.isfinite(val) or val <= 0" is false.
FinitePositive(val) == IsFinite(val) /\ QLt(Zero, val)

\* Lines 146-170 of add_co2_layer, given the outcome c of get_country_coords:
\* an exception there leaves the function; rows that resolve and hold a
\* finite positive value give a triple with the raw value; no layer without
\* such a row.
Co2HeatData(co2_df, c) ==
    LET kept == SelectSeq(co2_df,
                    LAMBDA r : /\ Truthy(resolve_admin_name(r.country_key, c.ret))
                               /\ FinitePositive(r.co2_total_mt))
        rows == [i \in 1..Len(kept) |->
                    LET at == c.ret[resolve_admin_name(kept[i].country_key, c.ret)].v
                    IN  <<at[1], at[2], kept[i].co2_total_mt>>]
    IN  IF c.raised # "" THEN [exc |-> c.raised, maps |-> <<>>, coords |-> c]
        ELSE IF rows = <<>> THEN [exc |-> "", maps |-> <<>>, coords |-> c]
        ELSE [exc |-> "", maps |-> << HeatMap("CO2 Emissions", rows) >>,
              coords |-> c]

\* add_co2_layer: the centroids are fetched or loaded first.
add_co2_layer(co2_df, file, src) ==
    Co2HeatData(co2_df, get_country_coords(file, src))

-----------------------------------------------------------------------------
(* main.py: the land mask, the weights and the render pass *)

SOLAR       == "Solar Irradiance"
PIPELINES   == "Pipeline Network"
CO2         == "CO2 Emissions"
TERRAFORMER == "Terraformer Effectiveness"
Layers      == {SOLAR, PIPELINES, CO2, TERRAFORMER}

MainLatStep == 200
MainLonStep == 200
DefaultSkip == 1

\* A land polygon, as the box of its southern, northern, western and eastern
\* edges (tenths of a degree); "contains" leaves the boundary out.
Box(south, north, west, east) == [s |-> south, n |-> north, w |-> west, e |-> east]
Contains(poly, lat, lon) ==
    /\ QLt(Float(poly.s), lat) /\ QLt(lat, Float(poly.n))
    /\ QLt(Float(poly.w), lon) /\ QLt(lon, Float(poly.e))

\* A plausible slip: without the LAND.empty test an empty frame contains nothing.
is_on_land_fail_closed(lat, lon, land) ==
    \E i \in 1..Len(land) : Contains(land[i], lat, lon)

is_on_land(lat, lon, land) ==
    IF land = <<>> THEN TRUE
    ELSE \E i \in 1..Len(land) : Contains(land[i], lat, lon)

\* Lines 50-55: the sliders' values, rescaled to sum to 1 when their sum is
\* positive.
NormalizeWeights(sl) ==
    LET total == sl[1] + sl[2] + sl[3]
    IN  IF total > 0
        THEN [solar |-> Q(sl[1], total), pipeline |-> Q(sl[2], total),
              co2 |-> Q(sl[3], total)]
        ELSE [solar |-> Q(sl[1], 100), pipeline |-> Q(sl[2], 100),
              co2 |-> Q(sl[3], 100)]

\* The state of a pass.  exc: the uncaught exception ("" for none); reached:
\* st_folium was called; has_solar / has_co2: solar_points / co2_df is not
\* None; cache, memo, cfile: the files and the memo while the pass runs (they
\* end in solar_cache, fetch_memo and coords_file); solar, coords: the calls of
\* get_global_solar_points (it ends in solar_call) and get_country_coords.
NoPass ==
    [exc |-> "", reached |-> FALSE, warnings |-> <<>>, heatmaps |-> <<>>,
     norm_log |-> <<>>, has_solar |-> FALSE, solar_points |-> <<>>,
     has_co2 |-> FALSE, co2_df |-> <<>>, cache |-> Absent, memo |-> <<>>,
     cfile |-> NoCoordsFile, solar |-> NoCall, coords |-> <<>>,
     weights |-> NormalizeWeights(<<0, 0, 0>>)]

Raise(st, e) == [st EXCEPT !.exc = e]

\* Lines 66-67: solar_points holds what get_global_solar_points returned (r).
SolarLoaded(st, r) ==
    [st EXCEPT !.has_solar = TRUE, !.solar_points = r.ret,
               !.cache = r.cache, !.memo = r.memo,
               !.solar = [args |-> <<MainLatStep, MainLonStep, DefaultSkip>>,
                          before |-> st.cache, hit |-> r.hit,
                          log |-> r.log, ret |-> r.ret]]

\* A layer function's outcome a: its exception ends the script, else its
\* layers are on the map.
LayerAdded(st, a) ==
    IF a.exc # "" THEN Raise(st, a.exc)
    ELSE [st EXCEPT !.heatmaps = @ \o a.maps, !.norm_log = @ \o a.norms]

\* Lines 70-72.
SolarLayer(st, choices) ==
    IF SOLAR \notin choices THEN st
    ELSE LayerAdded(st, add_solar_points_layer(st.solar_points))

\* Lines 63-72.
SolarStage(st, choices, service) ==
    IF st.exc # "" \/ (SOLAR \notin choices /\ TERRAFORMER \notin choices) THEN st
    ELSE SolarLayer(
             SolarLoaded(st, get_global_solar_points(MainLatStep, MainLonStep,
                                 DefaultSkip, st.cache, service, st.memo)),
             choices)

\* Lines 74-75.
PipelineStage(st, choices) ==
    IF st.exc # "" \/ PIPELINES \notin choices THEN st
    ELSE [st EXCEPT !.heatmaps = @ \o add_pipeline_layer]

\* Line 80, given the outcome a of add_co2_layer.
Co2Added(st, a) ==
    [st EXCEPT !.exc = a.exc, !.heatmaps = @ \o a.maps,
               !.cfile = a.coords.file, !.coords = Append(@, a.coords)]

\* Lines 79-80.
Co2Layer(st, choices, src) ==
    IF CO2 \notin choices THEN st
    ELSE Co2Added(st, add_co2_layer(st.co2_df, st.cfile, src))

\* Lines 77-80: a missing file raises FileNotFoundError.
Co2Stage(st, choices, csv, src) ==
    IF st.exc # "" \/ (CO2 \notin choices /\ TERRAFORMER \notin choices) THEN st
    ELSE IF csv.kind = "missing" THEN Raise(st, "FileNotFoundError")
    ELSE Co2Layer([st EXCEPT !.has_co2 = TRUE,
                             !.co2_df = get_country_co2_data(csv)],
                  choices, src)

\* Lines 88-95: the solar part of the compositor.  The division is reached,
\* and raises when smax = smin, at the first point on land.
CompositeSolar(st, land) ==
    LET pts  == st.solar_points
        vals == [i \in 1..Len(pts) |-> pts[i][3]]
        smin == QMin(vals)
        smax == QMax(vals)
        kept == SelectSeq(pts, LAMBDA q : is_on_land(q[1], q[2], land))
    IN  IF ~st.has_solar \/ pts = <<>> THEN [exc |-> "", points |-> <<>>, norms |-> <<>>]
        ELSE IF kept # <<>> /\ smax = smin
        THEN [exc |-> "ZeroDivisionError", points |-> <<>>, norms |-> <<>>]
        ELSE [exc |-> "",
              points |-> [i \in 1..Len(kept) |->
                            << kept[i][1], kept[i][2],
                               QMul(st.weights.solar,
                                    MinMax(kept[i][3], smin, smax)) >>],
              norms |-> [i \in 1..Len(kept) |->
                           Norm("solar", kept[i][3],
                                MinMax(kept[i][3], smin, smax))]]

\* Lines 98-108: the pipeline part of the compositor.
CompositePipelines(st, land) ==
    LET pmax == SeqMax([i \in 1..Len(PIPELINE_COUNTS) |-> PIPELINE_COUNTS[i][2]])
        kept == SelectSeq(PIPELINE_COUNTS,
                    LAMBDA e : /\ InCountryCoords(e[1])
                               /\ is_on_land(CountryCoord(e[1])[1],
                                             CountryCoord(e[1])[2], land))
    IN  IF PIPELINE_COUNTS = <<>> THEN [exc |-> "", points |-> <<>>, norms |-> <<>>]
        ELSE IF kept # <<>> /\ pmax = 0
        THEN [exc |-> "ZeroDivisionError", points |-> <<>>, norms |-> <<>>]
        ELSE [exc |-> "",
              points |-> [i \in 1..Len(kept) |->
                            << CountryCoord(kept[i][1])[1],
                               CountryCoord(kept[i][1])[2],
                               QMul(st.weights.pipeline, Q(kept[i][2], pmax)) >>],
              norms |-> [i \in 1..Len(kept) |->
                           Norm("pipelines", Float(kept[i][2]),
                                Q(kept[i][2], pmax))]]

\* val / cmax for a finite val with 0 < val <= cmax: 0.0 when cmax is inf.
DivByMax(val, cmax) == IF IsFinite(cmax) THEN QDiv(val, cmax) ELSE Zero

\* Lines 111-125: the CO2 part of the compositor.  np.nanmax of no value
\* raises ValueError.
CompositeCo2(st, land, coords) ==
    LET df   == st.co2_df
        cmax == QMax([i \in 1..Len(df) |-> df[i].co2_total_mt])
        At(r) == coords[resolve_admin_name(r.country_key, coords)].v
        kept == SelectSeq(df,
                    LAMBDA r : /\ Truthy(resolve_admin_name(r.country_key, coords))
                               /\ is_on_land(At(r)[1], At(r)[2], land)
                               /\ FinitePositive(r.co2_total_mt))
    IN  IF ~st.has_co2 THEN [exc |-> "", points |-> <<>>, norms |-> <<>>]
        ELSE IF df = <<>> THEN [exc |-> "ValueError", points |-> <<>>, norms |-> <<>>]
        ELSE [exc |-> "",
              points |-> [i \in 1..Len(kept) |->
                            << At(kept[i])[1], At(kept[i])[2],
                               QMul(st.weights.co2,
                                    DivByMax(kept[i].co2_total_mt, cmax)) >>],
              norms |-> [i \in 1..Len(kept) |->
                           Norm("co2", kept[i].co2_total_mt,
                                DivByMax(kept[i].co2_total_mt, cmax))]]

NO_DATA == "No data available to render Terraformer layer."

\* Lines 127-145: the three parts' points on one heat map, or the warning.
Composite(st, so, pi, co) ==
    LET heat_points == so.points \o pi.points \o co.points
    IN  IF so.exc # "" THEN Raise(st, so.exc)
        ELSE IF pi.exc # "" THEN Raise(st, pi.exc)
        ELSE IF co.exc # "" THEN Raise(st, co.exc)
        ELSE [st EXCEPT
                !.norm_log = @ \o so.norms \o pi.norms \o co.norms,
                !.heatmaps = IF heat_points # <<>>
                             THEN Append(@, HeatMap(TERRAFORMER, heat_points))
                             ELSE @,
                !.warnings = IF heat_points # <<>> THEN @
                             ELSE Append(@, NO_DATA)]

\* Lines 85-145, given the outcome c of get_country_coords.
Terraformer(st, land, c) ==
    IF c.raised # "" THEN Raise(st, c.raised)
    ELSE Composite(st, CompositeSolar(st, land), CompositePipelines(st, land),
                   CompositeCo2(st, land, c.ret))

\* The centroid file and the call record after get_country_coords.
CoordsLoaded(st, c) == [st EXCEPT !.cfile = c.file, !.coords = Append(@, c)]

\* Lines 83-145.
TerraformerStage(st, choices, land, src) ==
    IF st.exc # "" \/ TERRAFORMER \notin choices THEN st
    ELSE Terraformer(CoordsLoaded(st, get_country_coords(st.cfile, src)),
                     land,
                     get_country_coords(st.cfile, src))

\* Lines 148-149: the map is rendered unless an exception ended the script.
RenderStage(st) == IF st.exc # "" THEN st ELSE [st EXCEPT !.reached = TRUE]

-----------------------------------------------------------------------------
(* Specification of the country resolver: one call on arbitrary arguments *)

Centroid0 == <<0, 0>>

NameInputs ==
    { <<"Russia">>, <<"Russian Federation">>, <<"United States">>,
      <<"Cote d", APOS, "Ivoire">>, <<"C{o^}te d", RSQ, "Ivoire">>,
      <<"C{o^}te d", APOS, "Ivoire">>, <<"Atlantis">>, <<>> }

CoordKeys ==
    { <<"Russia">>, <<"Russian Federation">>, <<"United States of America">>,
      <<"C{o^}te d", RSQ, "Ivoire">>, <<"C{o^}te d", APOS, "Ivoire">>, <<>> }

ResolveIdle ==
    /\ name = <<>>
    /\ coords_dict = <<>>
    /\ resolved = Pending

ResolveInit ==
    /\ name \in NameInputs
    /\ \E keys \in SUBSET CoordKeys : coords_dict = [k \in keys |-> Centroid0]
    /\ resolved = Pending

CallResolve ==
    /\ resolved = Pending
    /\ resolved' = resolve_admin_name(name, coords_dict)
    /\ UNCHANGED <<name, coords_dict>>

-----------------------------------------------------------------------------
(* Specification of the grid generator: repeated calls with the same steps *)

GridIdle ==
    /\ lat_step = 0
    /\ lon_step = 0
    /\ grids = <<>>

GridInit ==
    /\ lat_step \in LatSteps
    /\ lon_step \in LonSteps
    /\ grids = <<>>

CallGenerateGrid ==
    /\ lat_step > 0
    /\ Len(grids) < MaxGridCalls
    /\ grids' = Append(grids, _generate_grid(lat_step, lon_step))
    /\ UNCHANGED <<lat_step, lon_step>>

-----------------------------------------------------------------------------
(* Specification of the solar sampler: calls of get_global_solar_points with
   the service, the cache file and the server process changing in between *)

MaxSolarCalls == 2
MaxEnvSteps   == 1

SolarResponses ==
    { Response("timeout", <<>>), Response("ok", <<2, 4>>),
      Response("ok", <<5, 6>>) }

OtherResponses ==
    { Response("http_error", <<>>), Response("malformed", <<>>),
      Response("ok", <<>>) }

\* (lat_step, lon_step, skip_factor) of a call: the end-to-end scenario's
\* 90/180 grid (3 x 3) with skip factors 1 to 3, and a 2 x 2 grid.
SolarArgs ==
    { <<900, 1800, 1>>, <<900, 1800, 2>>, <<900, 1800, 3>>,
      <<1800, 3600, 1>> }

\* What a cache file not written by the program may be.
ForeignFiles ==
    { Absent, Garbage, JsonFile(JArr(<<>>)),
      JsonFile(JArr(<< JArr(<<Zero, Zero>>) >>)),
      JsonFile(JArr(<< JArr(<<Float(100), Float(200), <<7, 2>> >>) >>)) }

SolarIdle ==
    /\ solar_cache = Absent
    /\ nasa = [b \in Bands |-> Response("timeout", <<>>)]
    /\ fetch_memo = <<>>
    /\ solar_call = NoCall
    /\ cache_origin = "other"
    /\ n_solar = 0

SolarInit ==
    /\ solar_cache \in {Absent, Garbage}
    /\ nasa \in [Bands -> SolarResponses]
    /\ fetch_memo = <<>>
    /\ solar_call = NoCall
    /\ cache_origin = "other"
    /\ n_solar = 0

CallSolar ==
    /\ n_solar < MaxSolarCalls
    /\ \E a \in SolarArgs :
         LET r == get_global_solar_points(a[1], a[2], a[3], solar_cache, nasa,
                                          fetch_memo)
         IN  /\ solar_call' = [args |-> a, before |-> solar_cache,
                               hit |-> r.hit, log |-> r.log, ret |-> r.ret]
             /\ solar_cache' = r.cache
             /\ fetch_memo' = r.memo
             /\ cache_origin' = IF r.hit THEN cache_origin ELSE "pass"
    /\ n_solar' = n_solar + 1
    /\ UNCHANGED <<nasa, n_env>>

\* The service starts or stops answering, or answers something else.
ServiceChanges ==
    /\ n_env < MaxEnvSteps
    /\ \E b \in Bands, r \in SolarResponses \cup OtherResponses :
         /\ r # nasa[b]
         /\ nasa' = [nasa EXCEPT ![b] = r]
    /\ n_env' = n_env + 1
    /\ UNCHANGED <<solar_cache, fetch_memo, solar_call, cache_origin, n_solar>>

\* The cache file is deleted, damaged or replaced by hand.
TamperCache ==
    /\ n_env < MaxEnvSteps
    /\ \E f \in ForeignFiles :
         /\ f # solar_cache
         /\ solar_cache' = f
    /\ cache_origin' = "other"
    /\ n_env' = n_env + 1
    /\ UNCHANGED <<nasa, fetch_memo, solar_call, n_solar>>

\* The Streamlit server restarts: st.cache_data's memo is gone.
RestartServer ==
    /\ n_env < MaxEnvSteps
    /\ fetch_memo # <<>>
    /\ fetch_memo' = <<>>
    /\ n_env' = n_env + 1
    /\ UNCHANGED <<solar_cache, nasa, solar_call, cache_origin, n_solar>>

-----------------------------------------------------------------------------
(* Specification of the centroid store: calls of get_country_coords with the
   geometry source and the cache file changing in between *)

MaxCoordsCalls == 3

Polygon      == <<"Polygon">>
MultiPolygon == <<"MultiPolygon">>

RussiaRing   == << <<300, 500>>, <<1800, 500>>, <<1800, 700>>, <<300, 700>> >>
RussiaRingB  == << <<300, 450>>, <<1700, 450>>, <<1700, 750>> >>
HawaiiRing   == << <<-1600, 190>>, <<-1550, 190>>, <<-1550, 220>> >>
MainlandRing == << <<-1250, 300>>, <<-700, 300>>, <<-700, 480>>, <<-1250, 480>>,
                   <<-1250, 300>> >>
AlaskaRing   == << <<-1650, 550>>, <<-1400, 550>>, <<-1400, 700>>, <<-1650, 700>>,
                   <<-1650, 550>> >>
IvoryRing    == << <<-80, 50>>, <<-30, 50>>, <<-30, 100>> >>

\* Two feature collections.  A: a Polygon, a MultiPolygon whose two largest
\* outer rings tie, a feature named by "name" only, and features that add
\* nothing (a Point, no name, no coordinates, a Polygon without ring, a
\* MultiPolygon of empty polygons).  B: other outlines, one name twice.
FeaturesA ==
    << Feature(<<"Russian Federation">>, None, None, Polygon, <<RussiaRing>>),
       Feature(<<"United States of America">>, <<"USA">>, None, MultiPolygon,
               << <<HawaiiRing>>, <<MainlandRing>>, <<AlaskaRing>> >>),
       Feature(None, <<"C{o^}te d", RSQ, "Ivoire">>, None, Polygon, <<IvoryRing>>),
       Feature(<<"Null Island">>, None, None, <<"Point">>, <<>>),
       Feature(None, <<>>, None, Polygon, <<RussiaRing>>),
       [Feature(<<"Nowhere">>, None, None, Polygon, <<>>)
            EXCEPT !.nocoords = TRUE],
       Feature(<<"Atlantis">>, None, None, Polygon, <<>>),
       Feature(<<"Lemuria">>, None, None, MultiPolygon, << <<>>, <<>> >>) >>

FeaturesB ==
    << Feature(<<"Russian Federation">>, None, None, Polygon, <<RussiaRing>>),
       Feature(None, None, <<"Russia">>, MultiPolygon, << <<IvoryRing>> >>),
       Feature(<<"Russian Federation">>, None, None, Polygon, <<RussiaRingB>>) >>

FeaturesNull ==
    << Feature(<<"Russian Federation">>, None, None, Polygon, <<RussiaRing>>),
       [Feature(<<"Antarctica">>, None, None, None, <<>>)
            EXCEPT !.nogeom = TRUE] >>

\* What the request for NE_URL comes to, by name: it fails ("down"), or
\* answers one of the collections.
NeSources == {"down", "A", "B", "null"}
NeSource(id) ==
    CASE id = "A"    -> [kind |-> "ok", features |-> FeaturesA]
      [] id = "B"    -> [kind |-> "ok", features |-> FeaturesB]
      [] id = "null" -> [kind |-> "ok", features |-> FeaturesNull]
      [] OTHER       -> [kind |-> "error", features |-> <<>>]

\* A centroid file the program did not write.
ForeignCoords ==
    CoordsJson([k \in { <<"Russia">>, <<"United States of America">> } |->
                   JArr(<<Float(615), Float(1053)>>)])

ForeignCoordsFiles == {NoCoordsFile, GarbageCoordsFile, ForeignCoords}

NoCoordsCall == CoordsOutcome(<<>>, "", FALSE, NoCoordsFile)

CoordsIdle ==
    /\ coords_file = NoCoordsFile
    /\ ne_source = "down"
    /\ coords_call = NoCoordsCall
    /\ coords_origin = "other"
    /\ n_coords = 0

CoordsInit ==
    /\ coords_file \in ForeignCoordsFiles
    /\ ne_source \in NeSources
    /\ coords_call = NoCoordsCall
    /\ coords_origin = "other"
    /\ n_coords = 0

CallCoords ==
    /\ n_coords < MaxCoordsCalls
    /\ LET r == get_country_coords(coords_file, NeSource(ne_source))
       IN  /\ coords_call' = r
           /\ coords_file' = r.file
           /\ coords_origin' =
                 IF r.file # coords_file THEN "rebuild" ELSE coords_origin
    /\ n_coords' = n_coords + 1
    /\ UNCHANGED <<ne_source, n_env>>

\* The geometry source starts or stops answering, or answers something else.
SourceChanges ==
    /\ n_env < MaxEnvSteps
    /\ \E id \in NeSources :
         /\ id # ne_source
         /\ ne_source' = id
    /\ n_env' = n_env + 1
    /\ UNCHANGED <<coords_file, coords_call, coords_origin, n_coords>>

\* The centroid file is deleted, damaged or replaced by hand.
TamperCoords ==
    /\ n_env < MaxEnvSteps
    /\ \E f \in ForeignCoordsFiles :
         /\ f # coords_file
         /\ coords_file' = f
    /\ coords_origin' = "other"
    /\ n_env' = n_env + 1
    /\ UNCHANGED <<ne_source, coords_call, n_coords>>

-----------------------------------------------------------------------------
(* Specification of the render pass: one run of main.py, in an environment
   (service, files, geometry source) and with sidebar values drawn from small
   sets *)

\* Land frames that loaded: continents as boxes, and a single island far from
\* every sampled point and centroid.
LandContinents ==
    << Box(100, 780, -100, 1790), Box(-350, 370, -170, 510),
       Box(150, 720, -1680, -550), Box(-550, 120, -810, -350),
       Box(-390, -110, 1130, 1530) >>
LandIsland == << Box(-12, -8, -1502, -1498) >>
LandFrames == {LandContinents, LandIsland}

\* The multiselect's values tried: nothing, each layer alone (the compositor
\* alone is the default), the three plain layers, and all four.
LayerChoices ==
    { {}, {SOLAR}, {PIPELINES}, {CO2}, {TERRAFORMER}, {SOLAR, PIPELINES, CO2},
      Layers }

SliderChoices == { <<33, 33, 33>>, <<0, 0, 0>>, <<100, 0, 0>> }

\* A point cache an earlier run left: three points of two values.
CachedPoints ==
    JsonFile(DumpPoints(<< <<Float(-700), Float(-1600), <<9, 2>> >>,
                           <<Float(500), Float(200), <<11, 2>> >>,
                           <<Float(300), Float(-1000), <<9, 2>> >> >>))

Russia == <<"Russia">>
\* Tables of data/co2_2023.csv: no row; rows that resolve by alias and one,
\* the largest, that does not; cells that are empty, zero, negative or padded
\* and a name with an apostrophe; an infinite value.
Co2Files ==
    { NoCsv,
      Csv(<<>>),
      Csv(<< Row(Russia, Float(7)), Row(<<"United States">>, Float(3)),
             Row(<<"World">>, Float(9)) >>),
      Csv(<< Row(<<"Cote d", APOS, "Ivoire">>, <<1, 2>>), Row(<<"Russia", " ">>, NaN),
             Row(<<" ", "Russia", " ">>, Float(2)),
             Row(<<"Russian Federation">>, Zero),
             Row(<<"United States of America">>, Float(-2)) >>),
      Csv(<< Row(Russia, PosInf), Row(<<"United States">>, Float(4)) >>) }

RenderIdle ==
    /\ pc = "idle"
    /\ LAND = <<>>
    /\ layer_choices = {}
    /\ sliders = <<0, 0, 0>>
    /\ co2_csv = NoCsv
    /\ page = NoPass

\* The environments of a pass: the point cache and the service (which an
\* existing cache leaves unasked), and the centroid file and the geometry
\* source (which an existing file leaves unasked).
Timeout == Response("timeout", <<>>)
SolarEnvs ==
    { <<CachedPoints, [b \in Bands |-> Timeout]>>,
      <<Absent, [b \in Bands |-> Timeout]>>,
      <<Absent, [b \in Bands |-> Response("ok", <<2, 4>>)]>>,
      <<Absent, [north |-> Response("ok", <<2, 4>>),
                 south |-> Response("ok", <<5, 6>>)]>> }
CoordsEnvs ==
    { <<NoCoordsFile, "down">>, <<NoCoordsFile, "A">>,
      <<GarbageCoordsFile, "down">>, <<ForeignCoords, "down">> }

RenderInit ==
    /\ pc = "start"
    /\ LAND = <<>>
    /\ layer_choices = {}
    /\ sliders = <<0, 0, 0>>
    /\ co2_csv \in Co2Files
    /\ page = NoPass
    /\ \E e \in SolarEnvs : solar_cache = e[1] /\ nasa = e[2]
    /\ fetch_memo = <<>>
    /\ solar_call = NoCall
    /\ cache_origin = "other"
    /\ n_solar = 0
    /\ \E e \in CoordsEnvs : coords_file = e[1] /\ ne_source = e[2]
    /\ coords_call = NoCoordsCall
    /\ coords_origin = "other"
    /\ n_coords = 0

\* Lines 18-23: the land polygons load, or the empty frame stands in and a
\* warning is shown.
ImportMain ==
    /\ pc = "start"
    /\ \/ /\ LAND' \in LandFrames
          /\ page' = page
       \/ /\ LAND' = <<>>
          /\ page' = [page EXCEPT !.warnings =
                          Append(@, "Failed to load land polygons")]
    /\ pc' = "imported"
    /\ UNCHANGED <<layer_choices, sliders, co2_csv, solarVars, coordsVars>>

\* Lines 36-55: the sidebar's values, and the weights rescaled.
Sidebar ==
    /\ pc = "imported"
    /\ layer_choices' \in LayerChoices
    /\ sliders' \in SliderChoices
    /\ page' = [page EXCEPT !.weights = NormalizeWeights(sliders')]
    /\ pc' = "configured"
    /\ UNCHANGED <<LAND, co2_csv, solarVars, coordsVars>>

\* Lines 57-149: the layers are loaded and added one after the other, up to
\* st_folium or to the first uncaught exception.
Script(st, choices, service, csv, land, src) ==
    RenderStage(
        TerraformerStage(
            Co2Stage(PipelineStage(SolarStage(st, choices, service), choices),
                     choices, csv, src),
            choices, land, src))

\* One run of the script with the sidebar's values.
RenderPass ==
    /\ pc = "configured"
    /\ \E st \in { Script([page EXCEPT !.cache = solar_cache,
                                       !.memo = fetch_memo,
                                       !.cfile = coords_file],
                           layer_choices, nasa, co2_csv, LAND,
                           NeSource(ne_source)) } :
           /\ page' = [st EXCEPT !.cache = Absent, !.memo = <<>>,
                                 !.cfile = NoCoordsFile, !.solar = NoCall]
           /\ solar_cache' = st.cache
           /\ fetch_memo' = st.memo
           /\ coords_file' = st.cfile
           /\ solar_call' = st.solar
           /\ n_solar' = IF st.has_solar THEN n_solar + 1 ELSE n_solar
           /\ cache_origin' =
                 IF st.has_solar /\ ~st.solar.hit THEN "pass" ELSE cache_origin
           /\ coords_call' =
                 IF st.coords = <<>> THEN coords_call
                 ELSE st.coords[Len(st.coords)]
           /\ n_coords' = n_coords + Len(st.coords)
           /\ coords_origin' =
                 IF st.cfile # coords_file THEN "rebuild" ELSE coords_origin
    /\ pc' = "done"
    /\ UNCHANGED <<LAND, layer_choices, sliders, co2_csv, nasa, ne_source>>

-----------------------------------------------------------------------------
(* The specifications *)

InitResolve ==
    ResolveInit /\ GridIdle /\ SolarIdle /\ CoordsIdle /\ RenderIdle /\ n_env = 0
NextResolve ==
    CallResolve /\ UNCHANGED <<gridVars, solarVars, coordsVars, renderVars, n_env>>
SpecResolve == InitResolve /\ [][NextResolve]_vars

InitGrid ==
    GridInit /\ ResolveIdle /\ SolarIdle /\ CoordsIdle /\ RenderIdle /\ n_env = 0
NextGrid ==
    CallGenerateGrid
        /\ UNCHANGED <<resolveVars, solarVars, coordsVars, renderVars, n_env>>
SpecGrid == InitGrid /\ [][NextGrid]_vars

InitSolar ==
    SolarInit /\ ResolveIdle /\ GridIdle /\ CoordsIdle /\ RenderIdle /\ n_env = 0
NextSolar ==
    \/ CallSolar /\ UNCHANGED <<resolveVars, gridVars, coordsVars, renderVars>>
    \/ ServiceChanges /\ UNCHANGED <<resolveVars, gridVars, coordsVars, renderVars>>
    \/ TamperCache /\ UNCHANGED <<resolveVars, gridVars, coordsVars, renderVars>>
    \/ RestartServer /\ UNCHANGED <<resolveVars, gridVars, coordsVars, renderVars>>
SpecSolar == InitSolar /\ [][NextSolar]_vars

InitCoords ==
    CoordsInit /\ ResolveIdle /\ GridIdle /\ SolarIdle /\ RenderIdle /\ n_env = 0
NextCoords ==
    \/ CallCoords /\ UNCHANGED <<resolveVars, gridVars, solarVars, renderVars>>
    \/ SourceChanges /\ UNCHANGED <<resolveVars, gridVars, solarVars, renderVars>>
    \/ TamperCoords /\ UNCHANGED <<resolveVars, gridVars, solarVars, renderVars>>
SpecCoords == InitCoords /\ [][NextCoords]_vars

InitRender == RenderInit /\ ResolveIdle /\ GridIdle /\ n_env = 0
NextRender ==
    \/ ImportMain /\ UNCHANGED <<resolveVars, gridVars, n_env>>
    \/ Sidebar /\ UNCHANGED <<resolveVars, gridVars, n_env>>
    \/ RenderPass /\ UNCHANGED <<resolveVars, gridVars, n_env>>
SpecRender == InitRender /\ [][NextRender]_vars

-----------------------------------------------------------------------------
(* C1 *)

\* C1: resolve_admin_name returns the first of (1) the name itself, (2) its
\* alias, (3) the name with U+2019 replaced by an apostrophe that is a key of
\* coords_dict, and None exactly when none is; a name that is a key is returned
\* unchanged whatever ALIASES says, and the value returned is always a key.
C1_ResolveOrder ==
    resolved # Pending =>
        LET keys   == DOMAIN coords_dict
            hasAl  == \E p \in ALIASES : p[1] = name
            target == (CHOOSE p \in ALIASES : p[1] = name)[2]
            exact  == name \in keys
            viaAl  == hasAl /\ target \in keys
            fixed  == [i \in 1..Len(name) |->
                          IF name[i] = RSQ THEN APOS ELSE name[i]]
            viaFix == fixed \in keys
        IN  /\ exact => resolved = name
            /\ (~exact /\ viaAl) => resolved = target
            /\ (~exact /\ ~viaAl /\ viaFix) => resolved = fixed
            /\ (resolved = None) <=> (~exact /\ ~viaAl /\ ~viaFix)
            /\ resolved # None => resolved \in keys

\* A name that is a key while its alias is another key has been resolved.
C1_Witness ==
    /\ resolved = name
    /\ name \in DOMAIN coords_dict
    /\ AliasesGet(name) \in DOMAIN coords_dict
    /\ AliasesGet(name) # name

-----------------------------------------------------------------------------
(* What a finished pass shows *)

\* The pass is over, by st_folium or by an uncaught exception.
PassOver == pc = "done"

\* The values of solar_points that are not NaN.
SolarValues == { page.solar_points[i][3] : i \in 1..Len(page.solar_points) } \ {NaN}

\* The triples handed to the heat maps of the given layer names.
Triples(layer) ==
    LET maps == SelectSeq(page.heatmaps, LAMBDA h : h.layer = layer)
    IN  UNION { Range(maps[i].data) : i \in 1..Len(maps) }

\* 0 <= w <= 1.
InUnit(w) == IsFinite(w) /\ QLe(Zero, w) /\ QLe(w, One)

-----------------------------------------------------------------------------
(* C2 *)

\* C2: a pass whose solar points hold no value, or values that are all equal,
\* does not end in a division error, neither in add_solar_points_layer nor in
\* the solar part of the compositor.
C2_DegenerateNoDivisionError ==
    (PassOver /\ page.has_solar /\ Cardinality(SolarValues) <= 1) =>
        page.exc # "ZeroDivisionError"

-----------------------------------------------------------------------------
(* C3 *)

\* C3: whatever layers are selected and whatever sources fail, a pass reaches
\* st_folium and does not end in an uncaught exception.
C3_PassReachesRender == PassOver => (page.reached /\ page.exc = "")

-----------------------------------------------------------------------------
(* C4 *)

\* The file holds a non-empty array of triples.
HoldsTriples(f) ==
    /\ f.kind = "json"
    /\ f.doc.v # <<>>
    /\ \A i \in 1..Len(f.doc.v) : Len(f.doc.v[i].v) = 3

\* The step is a call of get_global_solar_points that went through a full
\* sampling pass: one fetch per sampled grid point, and the result written.
FullPassStep ==
    /\ n_solar' = n_solar + 1
    /\ ~solar_call'.hit
    /\ LET a == solar_call'.args
       IN  Len(solar_call'.log) = Len(_generate_grid(a[1], a[2])) \div a[3]
    /\ solar_cache'.kind = "json"
    /\ Len(solar_cache'.doc.v) = Len(solar_call'.ret)
    /\ \A i \in 1..Len(solar_call'.ret) :
          solar_cache'.doc.v[i].v = solar_call'.ret[i]

\* C4: the cache file is written only at the end of a full pass; a call that
\* finds a non-empty cache written by an earlier pass makes no call of
\* _fetch_point_data, leaves the file alone and returns exactly the cached
\* triples; a file that is absent, holds an empty array or cannot be parsed
\* does not short-circuit: the call is a full pass.
C4_CacheShortCircuit ==
    [][ /\ (n_solar' = n_solar + 1 /\ cache_origin = "pass"
                /\ solar_cache.doc.v # <<>>) =>
            /\ solar_call'.log = <<>>
            /\ solar_cache' = solar_cache
            /\ Len(solar_call'.ret) = Len(solar_cache.doc.v)
            /\ \A i \in 1..Len(solar_cache.doc.v) :
                  solar_call'.ret[i] = solar_cache.doc.v[i].v
        /\ (n_solar' = n_solar + 1
                /\ (solar_cache.kind \in {"absent", "garbage"}
                        \/ solar_cache.doc.v = <<>>)) =>
            FullPassStep
        /\ (solar_cache' # solar_cache /\ n_env' = n_env) => FullPassStep
      ]_vars

\* A second call has been answered from the cache the first pass wrote.
C4_Witness ==
    /\ n_solar = 2
    /\ solar_call.hit
    /\ cache_origin = "pass"
    /\ solar_call.log = <<>>
    /\ Len(solar_call.ret) >= 2

-----------------------------------------------------------------------------
(* C5 *)

\* The places the compositor considers, in its order: the solar points, the
\* pipeline countries that have coordinates, and the CO2 rows that resolve to
\* a centroid and hold a finite positive value.
Candidates ==
    LET cd   == coords_call.ret
        pipe == SelectSeq(PIPELINE_COUNTS, LAMBDA e : InCountryCoords(e[1]))
        rows == SelectSeq(page.co2_df,
                    LAMBDA r : /\ resolve_admin_name(r.country_key, cd) # None
                               /\ IsFinite(r.co2_total_mt)
                               /\ QLt(Zero, r.co2_total_mt))
    IN  [i \in 1..Len(page.solar_points) |->
            <<page.solar_points[i][1], page.solar_points[i][2]>>]
        \o [i \in 1..Len(pipe) |-> CountryCoord(pipe[i][1])]
        \o [i \in 1..Len(rows) |->
               LET at == cd[resolve_admin_name(rows[i].country_key, cd)].v
               IN  <<at[1], at[2]>>]

\* The places of the compositor's heat map, in order; none without the map.
HeatPlaces ==
    LET maps == SelectSeq(page.heatmaps, LAMBDA h : h.layer = TERRAFORMER)
    IN  IF maps = <<>> THEN <<>>
        ELSE [i \in 1..Len(maps[1].data) |->
                <<maps[1].data[i][1], maps[1].data[i][2]>>]

\* Some polygon of LAND contains the place.
InsideSomePolygon(q) ==
    \E i \in 1..Len(LAND) :
        /\ QLt(Float(LAND[i].s), q[1]) /\ QLt(q[1], Float(LAND[i].n))
        /\ QLt(Float(LAND[i].w), q[2]) /\ QLt(q[2], Float(LAND[i].e))

\* C5: when the land polygons failed to load, the composite holds every
\* candidate place, none filtered out; when they are loaded, it holds exactly
\* the candidates that at least one polygon contains.
C5_LandMaskFailOpen ==
    (PassOver /\ page.reached /\ TERRAFORMER \in layer_choices) =>
        /\ LAND = <<>> => HeatPlaces = Candidates
        /\ LAND # <<>> => HeatPlaces = SelectSeq(Candidates, InsideSomePolygon)

\* The polygons failed to load and the composite holds all its candidates,
\* one of them a place no polygon of the continents' frame contains.
C5_Witness ==
    /\ PassOver /\ page.reached /\ TERRAFORMER \in layer_choices
    /\ LAND = <<>>
    /\ Len(HeatPlaces) > Len(page.solar_points)
    /\ \E i \in 1..Len(HeatPlaces) :
          \A k \in 1..Len(LandContinents) :
              ~Contains(LandContinents[k], HeatPlaces[i][1], HeatPlaces[i][2])

-----------------------------------------------------------------------------
(* C6 *)

\* C6: a full sampling pass calls _fetch_point_data exactly for the grid
\* points whose index (from 1) is a multiple of the skip factor, in grid order,
\* and returns, in that order, exactly the sampled points whose fetch did not
\* yield NaN, each with the value fetched; a failed request yields NaN.
C6_FullPassResult ==
    (n_solar > 0 /\ ~solar_call.hit) =>
        LET a    == solar_call.args
            N    == a[3]
            grid == _generate_grid(a[1], a[2])
            log  == solar_call.log
            ret  == solar_call.ret
            ok   == SelectSeq(log, LAMBDA e : e.val # NaN)
        IN  /\ Len(log) = Cardinality({i \in 1..Len(grid) : i % N = 0})
            /\ \A j \in 1..Len(log) :
                  /\ <<log[j].lat, log[j].lon>> = grid[j * N]
                  /\ log[j].resp.kind \in {"timeout", "http_error", "malformed"}
                        => log[j].val = NaN
                  /\ (log[j].resp.kind = "ok" /\ log[j].resp.series # <<>>)
                        => log[j].val # NaN
            /\ Len(ret) = Len(ok)
            /\ \A k \in 1..Len(ret) :
                  ret[k] = <<Float(ok[k].lat), Float(ok[k].lon), ok[k].val>>

\* A pass with skip factor 2 in which some fetches failed and some did not.
C6_Witness ==
    /\ n_solar > 0
    /\ ~solar_call.hit
    /\ solar_call.args[3] = 2
    /\ Len(solar_call.ret) > 0
    /\ Len(solar_call.ret) < Len(solar_call.log)
    /\ Len(solar_call.log) < Len(_generate_grid(solar_call.args[1],
                                                solar_call.args[2]))

-----------------------------------------------------------------------------
(* C7 *)

\* The least and the greatest of a non-empty set of floats.
Least(S)    == CHOOSE x \in S : \A y \in S : QLe(x, y)
Greatest(S) == CHOOSE x \in S : \A y \in S : QLe(y, x)

\* (v - lo) / (hi - lo)
Rescaled(v, lo, hi) ==
    Q((v[1] * lo[2] - lo[1] * v[2]) * (hi[2] * lo[2]),
      (v[2] * lo[2]) * (hi[1] * lo[2] - lo[1] * hi[2]))

\* The values a layer's normalisation qualifies: the solar values; all the
\* pipeline counts; the finite positive CO2 values.
Qualifying(layer) ==
    IF layer \in {"Solar Irradiance", "solar"} THEN SolarValues
    ELSE IF layer = "pipelines"
    THEN { Float(PIPELINE_COUNTS[i][2]) : i \in 1..Len(PIPELINE_COUNTS) }
    ELSE { v \in { page.co2_df[i].co2_total_mt : i \in 1..Len(page.co2_df) } :
              IsFinite(v) /\ QLt(Zero, v) }

TableMax == Greatest({ page.co2_df[i].co2_total_mt : i \in 1..Len(page.co2_df) })
CountMax == Greatest(Qualifying("pipelines"))

-----------------------------------------------------------------------------
(* C8 *)

\* C8: every triple that add_solar_points_layer, add_co2_layer and the
\* compositor hand to a heat map has its weight in [0,1].
C8_WeightsInUnit ==
    \A t \in Triples("Solar Irradiance") \cup Triples("CO2 Emissions")
                \cup Triples(TERRAFORMER) : InUnit(t[3])

-----------------------------------------------------------------------------
(* C9 *)

\* The two mappings hold the same names with the same (lat, lon).
SameCentroids(a, b) ==
    /\ DOMAIN a = DOMAIN b
    /\ \A k \in DOMAIN a : a[k].v = b[k].v

\* C9: get_country_coords requests the geometries if and only if the cache
\* file is absent; a rebuild that succeeds writes the mapping it returns to the
\* file, one that fails leaves the file absent; and a call that finds the file
\* a rebuild wrote returns that mapping, name for name, without a request and
\* without touching the file.
C9_LoadOrRebuild ==
    [][ n_coords' = n_coords + 1 =>
          /\ coords_call'.fetched <=> (coords_file.kind = "absent")
          /\ (coords_call'.fetched /\ coords_call'.raised = "") =>
                /\ coords_file'.kind = "json"
                /\ SameCentroids(coords_file'.doc, coords_call'.ret)
          /\ (coords_call'.fetched /\ coords_call'.raised # "") =>
                coords_file'.kind = "absent"
          /\ coords_origin = "rebuild" =>
                /\ ~coords_call'.fetched
                /\ coords_call'.raised = ""
                /\ coords_file' = coords_file
                /\ SameCentroids(coords_call'.ret, coords_file.doc)
      ]_vars

\* A later call has returned, without a request, the three centroids an
\* earlier rebuild wrote.
C9_Witness ==
    /\ n_coords >= 2
    /\ coords_origin = "rebuild"
    /\ ~coords_call.fetched
    /\ coords_call.raised = ""
    /\ Cardinality(DOMAIN coords_call.ret) = 3
    /\ SameCentroids(coords_call.ret, BuildCoords(FeaturesA, 1, <<>>))

-----------------------------------------------------------------------------
(* C10 *)

\* C10: for every positive lat_step and lon_step, _generate_grid returns the
\* row-major cross product of the latitudes -90, -90+lat_step, ... and the
\* longitudes -180, -180+lon_step, ..., every latitude in [-90,90] and every
\* longitude in [-180,180], its length the product of the two counts, and two
\* calls with the same steps return the same list.
C10_GridClaim ==
    \A c \in 1..Len(grids) :
        LET g    == grids[c]
            lats == { -900 + k * lat_step : k \in 0..(1800 \div lat_step) }
            lons == { -1800 + k * lon_step : k \in 0..(3600 \div lon_step) }
            nlon == Cardinality(lons)
        IN  /\ Len(g) = Cardinality(lats) * nlon
            /\ \A k \in 1..Len(g) :
                  /\ g[k][1] = -900 + ((k - 1) \div nlon) * lat_step
                  /\ g[k][2] = -1800 + ((k - 1) % nlon) * lon_step
                  /\ g[k][1] >= -900 /\ g[k][1] <= 900
                  /\ g[k][2] >= -1800 /\ g[k][2] <= 1800
            /\ \A d \in 1..Len(grids) : grids[d] = g

-----------------------------------------------------------------------------
(* C11 *)

\* The point is one of the sampled points of the grid of the parameters a.
OnSampledGrid(q, a) ==
    LET grid == _generate_grid(a[1], a[2])
    IN  \E k \in 1..Len(grid) :
            /\ k % a[3] = 0
            /\ q[1] = Float(grid[k][1])
            /\ q[2] = Float(grid[k][2])

\* C11: the point cache is not keyed by lat_step, lon_step and skip_factor.
\* A call that finds the non-empty cache an earlier pass wrote returns, whatever
\* its parameters, what the call before it returned (so, call after call, the
\* points of the pass that wrote the cache), without a fetch and without
\* touching the file; only once the file is gone does a call sample again, and
\* then on the grid of its own parameters.
C11_CacheNotKeyed ==
    [][ /\ (n_solar' = n_solar + 1 /\ n_solar > 0 /\ cache_origin = "pass"
                /\ solar_cache.doc.v # <<>>) =>
            /\ solar_call'.hit
            /\ solar_call'.log = <<>>
            /\ solar_call'.ret = solar_call.ret
            /\ solar_cache' = solar_cache
        /\ (n_solar' = n_solar + 1 /\ solar_cache.kind = "absent") =>
            /\ ~solar_call'.hit
            /\ \A i \in 1..Len(solar_call'.ret) :
                  OnSampledGrid(solar_call'.ret[i], solar_call'.args)
      ]_vars

\* A call with other parameters has returned, from the cache a pass wrote, a
\* point that is not on the grid it asked for.
C11_Witness ==
    /\ n_solar >= 2
    /\ solar_call.hit
    /\ cache_origin = "pass"
    /\ solar_call.before = solar_cache
    /\ \E i \in 1..Len(solar_call.ret) :
          ~OnSampledGrid(solar_call.ret[i], solar_call.args)

=============================================================================
